---- MODULE Spec2Model ----
(***************************************************************************)
(* The privacy-screen plugin (src/main.ts, full variant, lines 1-442) as a *)
(* state machine: the plugin object's fields, the overlay element in the   *)
(* document, the persisted data record, the saves in flight and the        *)
(* settings tab.  Every handler of the plugin is one action; the helper    *)
(* methods are operators on a record of the plugin's fields.               *)
(*                                                                         *)
(* Lengths are whole pixels.  The inputs are chosen so that the code's     *)
(* halvings (width / 2, (top + bottom) / 2) are exact; the corner radius   *)
(* of the square mask, (squareRoundness / 100) * min(rx, ry), is kept in   *)
(* hundredths of a pixel.                                                  *)
(***************************************************************************)
EXTENDS Integers, Sequences, FiniteSets, TLC

VARIABLES
    phase,                 \* "init" | "loaded" | "unloaded": the plugin instance's life
    settings,              \* this.settings
    overlayEl,             \* this.overlayEl: NULL or DIV
    attached,              \* number of overlay elements attached to document.body
    style,                 \* blur and mask-image set on the element overlayEl refers to
    isActive,              \* this.isActive
    wasActiveBeforePause,  \* this.wasActiveBeforePause
    currentX, currentY,    \* this.currentX, this.currentY
    data,                  \* the persisted record (data.json), NoData when absent
    pending,               \* saveSettings() calls awaiting saveData, oldest first
    tabOpen,               \* the settings tab is shown
    rendered,              \* what the last display() rendered: offset limits, roundness control
    pauseHist,             \* history: "none" | "A" | "I" | "x" (see NotePause)
    restored,              \* history: this instance's onload() re-created the overlay
    budget,                \* configuration changes the run may still make
    sequential,            \* the run's user acts one operation at a time (see CanCommand)
    missed,                \* history: the overlay is Active and its latest trackCursor() found no caret
    wh                     \* the plugin object of the width/height variant (lines 616-895), run alongside

vars == <<phase, settings, overlayEl, attached, style, isActive, wasActiveBeforePause,
          currentX, currentY, data, pending, tabOpen, rendered, pauseHist, restored, budget,
          sequential, missed, wh>>

(***************************************************************************)
(* Bounds of the model.                                                    *)
(***************************************************************************)
\* configuration changes (adjust commands, reset, tab controls) in one run
MaxOps == 1
\* the same, in the runs that only change the configuration (SpecSettings)
MaxSettingOps == 3
\* saves in flight at once
MaxPending == 2
\* distinct pointer positions and caret boxes the environment delivers
NumPoints == 1

NULL == "null"
DIV == "div"
NoTarget == [found |-> FALSE]
NoData == [k \in {} |-> 0]
\* a new element: no --blur-intensity (0 here) and no mask-image
NoStyle == [blur |-> 0, mask |-> [shape |-> "unset"]]

Min(a, b) == IF a < b THEN a ELSE b
Max(a, b) == IF a > b THEN a ELSE b
Abs(a) == IF a < 0 THEN -a ELSE a
\* Math.floor(n / 2) for an integer n
FloorHalf(n) == n \div 2

DEFAULT_SETTINGS ==
    [spotlightWidth |-> 200, spotlightHeight |-> 100, horizontalOffset |-> 0,
     blurIntensity |-> 8, featherEdge |-> 50, spotlightShape |-> "circle",
     squareRoundness |-> 20, previewCursorBlink |-> TRUE, wasActive |-> FALSE,
     trackingMode |-> "cursor"]

\* Object.assign({}, DEFAULT_SETTINGS, d): the keys of d override the defaults
AssignOver(d) ==
    LET get(k) == IF k \in DOMAIN d THEN d[k] ELSE DEFAULT_SETTINGS[k]
    IN  [spotlightWidth |-> get("spotlightWidth"), spotlightHeight |-> get("spotlightHeight"),
         horizontalOffset |-> get("horizontalOffset"), blurIntensity |-> get("blurIntensity"),
         featherEdge |-> get("featherEdge"), spotlightShape |-> get("spotlightShape"),
         squareRoundness |-> get("squareRoundness"),
         previewCursorBlink |-> get("previewCursorBlink"),
         wasActive |-> get("wasActive"), trackingMode |-> get("trackingMode")]

(***************************************************************************)
(* What the environment delivers.                                          *)
(***************************************************************************)
\* e.clientX, e.clientY of a mousemove
MousePoints == {<<30 * k, 40 * k>> : k \in 1..NumPoints}
\* coordsAtPos of the caret
CaretBoxes == {[found |-> TRUE, left |-> 10 * k, top |-> 20 * k, bottom |-> 40 * k] : k \in 1..NumPoints}
\* the editor's answer to trackCursor: a caret box, or no view / editor / coords
Targets == CaretBoxes \cup {NoTarget}
\* the values a user drags a slider with setLimits(lo, hi, step) to: its two ends
SliderEnds(lo, hi, step) == {lo, lo + ((hi - lo) \div step) * step}

(***************************************************************************)
(* The plugin's fields as one record, for the methods below.               *)
(***************************************************************************)
Self ==
    [settings |-> settings, overlayEl |-> overlayEl, attached |-> attached, style |-> style,
     isActive |-> isActive, wasActiveBeforePause |-> wasActiveBeforePause,
     currentX |-> currentX, currentY |-> currentY]

Become(s) ==
    /\ settings' = s.settings
    /\ overlayEl' = s.overlayEl
    /\ attached' = s.attached
    /\ style' = s.style
    /\ isActive' = s.isActive
    /\ wasActiveBeforePause' = s.wasActiveBeforePause
    /\ currentX' = s.currentX
    /\ currentY' = s.currentY

New ==
    [settings |-> DEFAULT_SETTINGS, overlayEl |-> NULL, attached |-> 0, style |-> NoStyle,
     isActive |-> FALSE, wasActiveBeforePause |-> FALSE, currentX |-> 0, currentY |-> 0]

(***************************************************************************)
(* Mask synthesis.                                                         *)
(***************************************************************************)
\* createSquareMask() whose outer rectangle has the inner corner radius
createSquareMaskSameCorner(cx, cy, width, height, roundness100, feather) ==
    LET left == cx - width \div 2
        top == cy - height \div 2
    IN  [shape |-> "square", left |-> left, top |-> top, width |-> width, height |-> height,
         rx100 |-> roundness100,
         outerLeft |-> left - feather, outerTop |-> top - feather,
         outerWidth |-> width + feather * 2, outerHeight |-> height + feather * 2,
         outerRx100 |-> roundness100]

createSquareMask(cx, cy, width, height, roundness100, feather) ==
    LET left == cx - width \div 2
        top == cy - height \div 2
    IN  [shape |-> "square", left |-> left, top |-> top, width |-> width, height |-> height,
         rx100 |-> roundness100,
         outerLeft |-> left - feather, outerTop |-> top - feather,
         outerWidth |-> width + feather * 2, outerHeight |-> height + feather * 2,
         outerRx100 |-> roundness100 + 100 * feather]

\* the mask with the offset left out of the circle's centre
maskImageNoOffset(st, cx, cy) ==
    LET rx == st.spotlightWidth \div 2
        ry == st.spotlightHeight \div 2
    IN  IF st.spotlightShape = "square"
        THEN createSquareMask(cx + st.horizontalOffset, cy, st.spotlightWidth, st.spotlightHeight,
                              st.squareRoundness * Min(rx, ry), st.featherEdge)
        ELSE [shape |-> "circle", x |-> cx, y |-> cy, rx |-> rx, ry |-> ry,
              outerRx |-> rx + st.featherEdge, outerRy |-> ry + st.featherEdge]

maskImage(st, cx, cy) ==
    LET x == cx + st.horizontalOffset
        y == cy
        rx == st.spotlightWidth \div 2
        ry == st.spotlightHeight \div 2
    IN  IF st.spotlightShape = "square"
        THEN createSquareMask(x, y, st.spotlightWidth, st.spotlightHeight,
                              st.squareRoundness * Min(rx, ry), st.featherEdge)
        ELSE [shape |-> "circle", x |-> x, y |-> y, rx |-> rx, ry |-> ry,
              outerRx |-> rx + st.featherEdge, outerRy |-> ry + st.featherEdge]

updateMask(s) ==
    IF s.overlayEl = NULL THEN s
    ELSE [s EXCEPT !.style.mask = maskImage(s.settings, s.currentX, s.currentY)]

\* applySettings() without its overlayEl test: the style is written regardless
applySettingsUnguarded(s) ==
    [s EXCEPT !.style = [blur |-> s.settings.blurIntensity,
                         mask |-> maskImage(s.settings, s.currentX, s.currentY)]]

applySettings(s) ==
    IF s.overlayEl = NULL THEN s
    ELSE updateMask([s EXCEPT !.style.blur = s.settings.blurIntensity])

updateSpotlightPosition(s, x, y) ==
    updateMask([s EXCEPT !.currentX = x, !.currentY = y])

\* trackCursor() that falls back to the origin when it finds no caret
trackCursorOriginOnMiss(s, target) ==
    IF ~s.isActive THEN s
    ELSE IF ~target.found THEN updateSpotlightPosition(s, 0, 0)
    ELSE updateSpotlightPosition(s, target.left, (target.top + target.bottom) \div 2)

trackCursor(s, target) ==
    IF ~s.isActive THEN s
    ELSE IF ~target.found THEN s
    ELSE updateSpotlightPosition(s, target.left, (target.top + target.bottom) \div 2)

(***************************************************************************)
(* Overlay lifecycle.                                                      *)
(***************************************************************************)
createOverlay(s, target) ==
    trackCursor(applySettings([s EXCEPT !.overlayEl = DIV, !.attached = @ + 1,
                                        !.style = NoStyle]), target)

\* removeOverlay() that forgets the element without removing it from the document
removeOverlayLeaveAttached(s) ==
    IF s.overlayEl # NULL
    THEN [s EXCEPT !.overlayEl = NULL, !.style = NoStyle]
    ELSE s

removeOverlay(s) ==
    IF s.overlayEl # NULL
    THEN [s EXCEPT !.overlayEl = NULL, !.attached = @ - 1, !.style = NoStyle]
    ELSE s

\* pauseOverlay() that removes the surface and leaves isActive set
pauseOverlayStillActive(s) ==
    LET s1 == [s EXCEPT !.wasActiveBeforePause = s.isActive]
    IN  IF s1.isActive THEN removeOverlay(s1) ELSE s1

pauseOverlay(s) ==
    LET s1 == [s EXCEPT !.wasActiveBeforePause = s.isActive]
    IN  IF s1.isActive THEN [removeOverlay(s1) EXCEPT !.isActive = FALSE] ELSE s1

\* resumeOverlay() without its !this.isActive test
resumeOverlayUnchecked(s, target) ==
    IF s.wasActiveBeforePause
    THEN [createOverlay(s, target) EXCEPT !.isActive = TRUE]
    ELSE s

resumeOverlay(s, target) ==
    IF s.wasActiveBeforePause /\ ~s.isActive
    THEN [createOverlay(s, target) EXCEPT !.isActive = TRUE]
    ELSE s

\* toggle() without the assignment to settings.wasActive
toggleNoFlag(s, target) ==
    LET s1 == IF s.isActive THEN removeOverlay(s) ELSE createOverlay(s, target)
    IN  [s1 EXCEPT !.isActive = ~s1.isActive]

toggle(s, target) ==
    LET s1 == IF s.isActive THEN removeOverlay(s) ELSE createOverlay(s, target)
        s2 == [s1 EXCEPT !.isActive = ~s1.isActive]
    IN  [s2 EXCEPT !.settings.wasActive = s2.isActive]

(***************************************************************************)
(* Configuration changes made by the commands.                             *)
(***************************************************************************)
\* adjustSetting() without the upper clamp
adjustSettingNoUpper(s, key, delta, min, max) ==
    [s EXCEPT !.settings[key] = Max(min, s.settings[key] + delta)]

adjustSetting(s, key, delta, min, max) ==
    [s EXCEPT !.settings[key] = Max(min, Min(max, s.settings[key] + delta))]

adjustOffset(s, delta) ==
    LET maxOffset == FloorHalf(s.settings.spotlightWidth) - 5
    IN  [s EXCEPT !.settings.horizontalOffset =
                      Max(-maxOffset, Min(maxOffset, s.settings.horizontalOffset + delta))]

\* resetSettings() that keeps the shape the user chose
resetSettingsKeepShape(s) ==
    [s EXCEPT !.settings = [DEFAULT_SETTINGS EXCEPT !.spotlightShape = s.settings.spotlightShape]]

resetSettings(s) == [s EXCEPT !.settings = DEFAULT_SETTINGS]

toggleTrackingMode(s) ==
    [s EXCEPT !.settings.trackingMode = IF @ = "cursor" THEN "mouse" ELSE "cursor"]

\* the width slider's onChange, up to its await
setWidth(s, value) ==
    LET maxOffset == FloorHalf(value) - 5
        s1 == [s EXCEPT !.settings.spotlightWidth = value]
    IN  IF s1.settings.horizontalOffset > maxOffset
        THEN [s1 EXCEPT !.settings.horizontalOffset = maxOffset]
        ELSE IF s1.settings.horizontalOffset < -maxOffset
        THEN [s1 EXCEPT !.settings.horizontalOffset = -maxOffset]
        ELSE s1

(***************************************************************************)
(* saveSettings(): saveData(this.settings) is called at once with the      *)
(* record as it is then; applySettings(), and what the caller does after   *)
(* its own await ("display": the tab re-renders), run when the save        *)
(* completes.  Saves complete in the order they were issued.               *)
(***************************************************************************)
saveSettings(s, then) == Append(pending, [snap |-> s.settings, then |-> then])

\* what display() renders from the settings: the offset slider's limits, and
\* the roundness slider only for the square shape
Render(st) ==
    [maxOffset |-> FloorHalf(st.spotlightWidth) - 5, roundness |-> st.spotlightShape = "square"]

NotRendered == [maxOffset |-> 0, roundness |-> FALSE]

\* History of the pause in effect: "none" when no pauseOverlay() has been called
\* since the last resumeOverlay(); "A" / "I" when only pauseOverlay() calls changed
\* isActive since the first of them, made when the overlay was Active / Inactive;
\* "x" once toggle() ran in between.
NotePause(h, active) == IF h = "none" THEN (IF active THEN "A" ELSE "I") ELSE h

NoteToggle(h) == IF h = "none" THEN h ELSE "x"

(***************************************************************************)
(* The width/height variant without offset (src/main.ts lines 616-895): a  *)
(* plugin of its own, with six settings, no tracking mode, no persisted    *)
(* active flag and no pause.  Its methods act on the record wh.            *)
(***************************************************************************)
DEFAULT_SETTINGS_wh ==
    [spotlightWidth |-> 200, spotlightHeight |-> 100, blurIntensity |-> 8,
     featherEdge |-> 50, spotlightShape |-> "circle", squareRoundness |-> 20]

\* Object.assign({}, DEFAULT_SETTINGS, d) of the variant: the keys of d are
\* copied over its defaults; the keys it does not know are never read
AssignOver_wh(d) ==
    LET get(k) == IF k \in DOMAIN d THEN d[k] ELSE DEFAULT_SETTINGS_wh[k]
    IN  [spotlightWidth |-> get("spotlightWidth"), spotlightHeight |-> get("spotlightHeight"),
         blurIntensity |-> get("blurIntensity"), featherEdge |-> get("featherEdge"),
         spotlightShape |-> get("spotlightShape"), squareRoundness |-> get("squareRoundness")]

New_wh ==
    [settings |-> DEFAULT_SETTINGS_wh, overlayEl |-> NULL, attached |-> 0, style |-> NoStyle,
     isActive |-> FALSE, currentX |-> 0, currentY |-> 0]

createSquareMask_wh(cx, cy, width, height, roundness100, feather) ==
    LET left == cx - width \div 2
        top == cy - height \div 2
        outerLeft == left - feather
        outerTop == top - feather
        outerWidth == width + feather * 2
        outerHeight == height + feather * 2
        outerRoundness100 == roundness100 + 100 * feather
    IN  [shape |-> "square", left |-> left, top |-> top, width |-> width, height |-> height,
         rx100 |-> roundness100,
         outerLeft |-> outerLeft, outerTop |-> outerTop,
         outerWidth |-> outerWidth, outerHeight |-> outerHeight,
         outerRx100 |-> outerRoundness100]

\* the variant's mask with the same radii on both ellipses
maskImage_whNoFeather(st, cx, cy) ==
    LET rx == st.spotlightWidth \div 2
        ry == st.spotlightHeight \div 2
    IN  IF st.spotlightShape = "square"
        THEN createSquareMask_wh(cx, cy, st.spotlightWidth, st.spotlightHeight,
                                 st.squareRoundness * Min(rx, ry), st.featherEdge)
        ELSE [shape |-> "circle", x |-> cx, y |-> cy, rx |-> rx, ry |-> ry,
              outerRx |-> rx, outerRy |-> ry]

maskImage_wh(st, cx, cy) ==
    LET x == cx
        y == cy
        rx == st.spotlightWidth \div 2
        ry == st.spotlightHeight \div 2
    IN  IF st.spotlightShape = "square"
        THEN createSquareMask_wh(x, y, st.spotlightWidth, st.spotlightHeight,
                                 st.squareRoundness * Min(rx, ry), st.featherEdge)
        ELSE [shape |-> "circle", x |-> x, y |-> y, rx |-> rx, ry |-> ry,
              outerRx |-> rx + st.featherEdge, outerRy |-> ry + st.featherEdge]

updateMask_wh(v) ==
    IF v.overlayEl = NULL THEN v
    ELSE [v EXCEPT !.style.mask = maskImage_wh(v.settings, v.currentX, v.currentY)]

applySettings_wh(v) ==
    IF v.overlayEl = NULL THEN v
    ELSE updateMask_wh([v EXCEPT !.style.blur = v.settings.blurIntensity])

updateSpotlightPosition_wh(v, x, y) ==
    updateMask_wh([v EXCEPT !.currentX = x, !.currentY = y])

trackCursor_wh(v, target) ==
    IF ~v.isActive THEN v
    ELSE IF ~target.found THEN v
    ELSE updateSpotlightPosition_wh(v, target.left, (target.top + target.bottom) \div 2)

createOverlay_wh(v, target) ==
    trackCursor_wh(applySettings_wh([v EXCEPT !.overlayEl = DIV, !.attached = @ + 1,
                                              !.style = NoStyle]), target)

removeOverlay_wh(v) ==
    IF v.overlayEl # NULL
    THEN [v EXCEPT !.overlayEl = NULL, !.attached = @ - 1, !.style = NoStyle]
    ELSE v

toggle_wh(v, target) ==
    LET v1 == IF v.isActive THEN removeOverlay_wh(v) ELSE createOverlay_wh(v, target)
    IN  [v1 EXCEPT !.isActive = ~v1.isActive]

onload_wh(v, d) == [v EXCEPT !.settings = AssignOver_wh(d)]

(***************************************************************************)
(* Start-up and shutdown.                                                  *)
(***************************************************************************)
InitWith(b, seq) ==
    /\ phase = "init"
    /\ settings = New.settings
    /\ overlayEl = New.overlayEl
    /\ attached = New.attached
    /\ style = New.style
    /\ isActive = New.isActive
    /\ wasActiveBeforePause = New.wasActiveBeforePause
    /\ currentX = New.currentX
    /\ currentY = New.currentY
    /\ data = NoData
    /\ pending = <<>>
    /\ tabOpen = FALSE
    /\ rendered = NotRendered
    /\ pauseHist = "none"
    /\ restored = FALSE
    /\ budget = b
    /\ sequential = seq
    /\ missed = FALSE
    /\ wh = New_wh

Init == InitWith(MaxOps, FALSE)

\* onload() that creates the overlay but leaves isActive false
onloadNotActive(s, target) ==
    LET s1 == [s EXCEPT !.settings = AssignOver(data)]
    IN  IF s1.settings.wasActive THEN createOverlay(s1, target) ELSE s1

onload(s, target) ==
    LET s1 == [s EXCEPT !.settings = AssignOver(data)]
    IN  IF s1.settings.wasActive
        THEN [createOverlay(s1, target) EXCEPT !.isActive = TRUE]
        ELSE s1

Onload ==
    /\ phase = "init"
    /\ \E target \in Targets : Become(onload(Self, target))
    /\ phase' = "loaded"
    /\ restored' = AssignOver(data).wasActive
    /\ UNCHANGED <<data, pending, tabOpen, rendered, pauseHist, budget, sequential, missed, wh>>

Onunload ==
    /\ phase = "loaded"
    /\ Become(removeOverlay(Self))
    /\ phase' = "unloaded"
    /\ tabOpen' = FALSE
    /\ missed' = FALSE
    /\ UNCHANGED <<data, pending, rendered, pauseHist, restored, budget, sequential, wh>>

\* the next session: a new plugin object in a new document; saves that were
\* still in flight are lost with the old process
Restart ==
    /\ phase = "unloaded"
    /\ Become(New)
    /\ phase' = "init"
    /\ pending' = <<>>
    /\ rendered' = NotRendered
    /\ pauseHist' = "none"
    /\ restored' = FALSE
    /\ missed' = FALSE
    /\ UNCHANGED <<data, tabOpen, budget, sequential, wh>>

(***************************************************************************)
(* Commands.                                                               *)
(***************************************************************************)
Toggle ==
    /\ phase = "loaded"
    /\ Len(pending) < MaxPending
    /\ \E target \in Targets :
         LET s == toggle(Self, target)
         IN  Become(s) /\ pending' = saveSettings(s, "apply")
    /\ pauseHist' = NoteToggle(pauseHist)
    /\ missed' = FALSE
    /\ UNCHANGED <<phase, data, tabOpen, rendered, restored, budget, sequential, wh>>

\* a command runs: the plugin is loaded (and the run may still change the
\* configuration and issue a save); a sequential user runs commands only while
\* the settings tab is closed
CanCommand ==
    /\ phase = "loaded"
    /\ sequential => ~tabOpen
    /\ budget > 0
    /\ Len(pending) < MaxPending

\* a command that changes the configuration without saveSettings()
CommandNoSave(s) ==
    /\ Become(s)
    /\ budget' = budget - 1
    /\ UNCHANGED <<phase, data, pending, tabOpen, rendered, pauseHist, restored, sequential, missed, wh>>

\* the rest of a command: the configuration becomes that of s, void saveSettings()
Command(s) ==
    /\ Become(s)
    /\ pending' = saveSettings(s, "apply")
    /\ budget' = budget - 1
    /\ UNCHANGED <<phase, data, tabOpen, rendered, pauseHist, restored, sequential, missed, wh>>

IncreaseWidth ==
    /\ CanCommand
    /\ Command(adjustSetting(Self, "spotlightWidth", 10, 24, 600))

DecreaseWidth ==
    /\ CanCommand
    /\ Command(adjustSetting(Self, "spotlightWidth", -10, 24, 600))

IncreaseHeight ==
    /\ CanCommand
    /\ Command(adjustSetting(Self, "spotlightHeight", 10, 24, 600))

DecreaseHeight ==
    /\ CanCommand
    /\ Command(adjustSetting(Self, "spotlightHeight", -10, 24, 600))

IncreaseBlur ==
    /\ CanCommand
    /\ Command(adjustSetting(Self, "blurIntensity", 1, 2, 20))

DecreaseBlur ==
    /\ CanCommand
    /\ Command(adjustSetting(Self, "blurIntensity", -1, 2, 20))

IncreaseOffset ==
    /\ CanCommand
    /\ Command(adjustOffset(Self, 5))

DecreaseOffset ==
    /\ CanCommand
    /\ Command(adjustOffset(Self, -5))

ResetSettings ==
    /\ CanCommand
    /\ Command(resetSettings(Self))

ToggleTrackingMode ==
    /\ CanCommand
    /\ Command(toggleTrackingMode(Self))

(***************************************************************************)
(* Tracking events.                                                        *)
(***************************************************************************)
\* keyup, click and active-leaf-change: each calls trackCursor()
TrackingEvent ==
    /\ phase = "loaded"
    /\ \E target \in Targets :
         /\ Become(trackCursor(Self, target))
         /\ missed' = IF isActive THEN ~target.found ELSE missed
    /\ UNCHANGED <<phase, data, pending, tabOpen, rendered, pauseHist, restored, budget, sequential, wh>>

\* the mousemove handler without the tracking-mode test
mousemoveAnyMode(s, x, y) ==
    IF s.isActive THEN updateSpotlightPosition(s, x, y) ELSE s

\* a mousemove handler whose mask leaves the horizontal offset out
mousemoveNoOffset(s, x, y) ==
    IF s.isActive /\ s.settings.trackingMode = "mouse"
    THEN LET s1 == [s EXCEPT !.currentX = x, !.currentY = y]
         IN  IF s1.overlayEl = NULL THEN s1
             ELSE [s1 EXCEPT !.style.mask =
                                 maskImage([s.settings EXCEPT !.horizontalOffset = 0], x, y)]
    ELSE s

mousemove(s, x, y) ==
    IF s.isActive /\ s.settings.trackingMode = "mouse"
    THEN updateSpotlightPosition(s, x, y)
    ELSE s

MouseMove ==
    /\ phase = "loaded"
    /\ \E pt \in MousePoints : Become(mousemove(Self, pt[1], pt[2]))
    /\ UNCHANGED <<phase, data, pending, tabOpen, rendered, pauseHist, restored, budget, sequential, missed, wh>>

(***************************************************************************)
(* The settings tab.                                                       *)
(***************************************************************************)
\* display(), called by the host when the tab is shown
OpenTab ==
    /\ phase = "loaded"
    /\ ~tabOpen
    /\ Become(pauseOverlay(Self))
    /\ tabOpen' = TRUE
    /\ rendered' = Render(settings)
    /\ pauseHist' = NotePause(pauseHist, isActive)
    /\ missed' = FALSE
    /\ UNCHANGED <<phase, data, pending, restored, budget, sequential, wh>>

\* hide(), called by the host when the tab is left
CloseTab ==
    /\ phase = "loaded"
    /\ tabOpen
    /\ sequential => pending = <<>>
    /\ \E target \in Targets : Become(resumeOverlay(Self, target))
    /\ tabOpen' = FALSE
    /\ pauseHist' = "none"
    /\ UNCHANGED <<phase, data, pending, rendered, restored, budget, sequential, missed, wh>>

\* a control of the rendered tab is used (and the run may still change the
\* configuration and issue a save); a sequential user waits for the save of the
\* control used before
CanControl ==
    /\ phase = "loaded"
    /\ tabOpen
    /\ sequential => pending = <<>>
    /\ budget > 0
    /\ Len(pending) < MaxPending

\* a control's onChange: the configuration becomes that of s, await saveSettings()
Control(s, then) ==
    /\ Become(s)
    /\ pending' = saveSettings(s, then)
    /\ budget' = budget - 1
    /\ UNCHANGED <<phase, data, tabOpen, rendered, pauseHist, restored, sequential, missed, wh>>

WidthSlider ==
    /\ CanControl
    /\ \E value \in SliderEnds(24, 600, 10) \ {settings.spotlightWidth} :
         Control(setWidth(Self, value), "display")

\* its limits are those display() computed from the width it rendered
OffsetSlider ==
    /\ CanControl
    /\ \E value \in SliderEnds(-rendered.maxOffset, rendered.maxOffset, 1)
                       \ {settings.horizontalOffset} :
         Control([Self EXCEPT !.settings.horizontalOffset = value], "apply")

HeightSlider ==
    /\ CanControl
    /\ \E value \in SliderEnds(24, 600, 10) \ {settings.spotlightHeight} :
         Control([Self EXCEPT !.settings.spotlightHeight = value], "apply")

BlurSlider ==
    /\ CanControl
    /\ \E value \in SliderEnds(2, 20, 1) \ {settings.blurIntensity} :
         Control([Self EXCEPT !.settings.blurIntensity = value], "apply")

FeatherSlider ==
    /\ CanControl
    /\ \E value \in SliderEnds(10, 100, 5) \ {settings.featherEdge} :
         Control([Self EXCEPT !.settings.featherEdge = value], "apply")

ShapeDropdown ==
    /\ CanControl
    /\ \E value \in {"circle", "square"} \ {settings.spotlightShape} :
         Control([Self EXCEPT !.settings.spotlightShape = value], "display")

\* rendered only when the shape was square
RoundnessSlider ==
    /\ CanControl
    /\ rendered.roundness
    /\ \E value \in SliderEnds(0, 100, 5) \ {settings.squareRoundness} :
         Control([Self EXCEPT !.settings.squareRoundness = value], "apply")

TrackingDropdown ==
    /\ CanControl
    /\ \E value \in {"cursor", "mouse"} \ {settings.trackingMode} :
         Control([Self EXCEPT !.settings.trackingMode = value], "apply")

BlinkToggle ==
    /\ CanControl
    /\ Control([Self EXCEPT !.settings.previewCursorBlink = ~@], "display")

(***************************************************************************)
(* Completion of the oldest save in flight.                                *)
(***************************************************************************)
\* saveData resolves: the record is on disk, applySettings() runs, then the
\* caller's continuation; display() pauses the overlay and renders again
SaveDone ==
    /\ pending # <<>>
    /\ LET h == Head(pending)
           s == applySettings(Self)
       IN  /\ data' = h.snap
           /\ IF h.then = "display"
              THEN /\ Become(pauseOverlay(s))
                   /\ rendered' = Render(s.settings)
                   /\ pauseHist' = NotePause(pauseHist, s.isActive)
                   /\ missed' = FALSE
              ELSE /\ Become(s)
                   /\ UNCHANGED <<rendered, pauseHist, missed>>
    /\ pending' = Tail(pending)
    /\ UNCHANGED <<phase, tabOpen, restored, budget, sequential, wh>>

\* saveData rejects: saveSettings() throws at its await, nothing after it runs
SaveFail ==
    /\ pending # <<>>
    /\ pending' = Tail(pending)
    /\ UNCHANGED <<phase, settings, overlayEl, attached, style, isActive,
                   wasActiveBeforePause, currentX, currentY, data, tabOpen, rendered,
                   pauseHist, restored, budget, sequential, missed, wh>>

\* Every handler, in any order.  (The roundness slider is rendered only after
\* the shape was changed to square and the tab rendered again: it is part of
\* NextSettings, whose runs make more configuration changes.)
Next ==
    \/ Onload
    \/ Onunload
    \/ Restart
    \/ Toggle
    \/ IncreaseWidth
    \/ DecreaseWidth
    \/ IncreaseHeight
    \/ DecreaseHeight
    \/ IncreaseBlur
    \/ DecreaseBlur
    \/ IncreaseOffset
    \/ DecreaseOffset
    \/ ResetSettings
    \/ ToggleTrackingMode
    \/ TrackingEvent
    \/ MouseMove
    \/ OpenTab
    \/ CloseTab
    \/ WidthSlider
    \/ OffsetSlider
    \/ HeightSlider
    \/ BlurSlider
    \/ FeatherSlider
    \/ ShapeDropdown
    \/ TrackingDropdown
    \/ BlinkToggle
    \/ SaveDone

Spec == Init /\ [][Next]_vars

(***************************************************************************)
(* The runs that only change the configuration, one operation at a time,   *)
(* from the defaults: the commands are used while the tab is closed, a tab *)
(* control once the save before it has completed.  The overlay is never    *)
(* toggled on.                                                             *)
(***************************************************************************)
InitSettings == InitWith(MaxSettingOps, TRUE)

NextSettings ==
    \/ Onload
    \/ IncreaseWidth
    \/ DecreaseWidth
    \/ IncreaseHeight
    \/ DecreaseHeight
    \/ IncreaseBlur
    \/ DecreaseBlur
    \/ IncreaseOffset
    \/ DecreaseOffset
    \/ ResetSettings
    \/ ToggleTrackingMode
    \/ OpenTab
    \/ CloseTab
    \/ WidthSlider
    \/ OffsetSlider
    \/ HeightSlider
    \/ BlurSlider
    \/ FeatherSlider
    \/ ShapeDropdown
    \/ RoundnessSlider
    \/ TrackingDropdown
    \/ BlinkToggle
    \/ SaveDone

SpecSettings == InitSettings /\ [][NextSettings]_vars

(***************************************************************************)
(* The runs in which saveData may also reject.                             *)
(***************************************************************************)
NextFailing ==
    \/ Next
    \/ SaveFail

SpecFailing == Init /\ [][NextFailing]_vars

(***************************************************************************)
(* The runs that start from a record already on disk and use the overlay   *)
(* without changing the configuration: the record is one a session of the  *)
(* plugin saved (values the sliders and commands produce, the offset       *)
(* within the bound of every width), or one written by something else      *)
(* (data.json is a plain file), which loadSettings() takes as it is.       *)
(***************************************************************************)
StoredWidths == {24, 200, 600}
StoredHeights == {24, 100}
StoredOffsets == {-7, 0, 7}
StoredFeathers == {10, 50}
StoredRoundness == {0, 20, 100}

SavedRecords ==
    {[DEFAULT_SETTINGS EXCEPT !.spotlightWidth = w, !.spotlightHeight = h,
                              !.horizontalOffset = o, !.featherEdge = f,
                              !.spotlightShape = shape, !.squareRoundness = r,
                              !.trackingMode = mode, !.wasActive = active] :
        w \in StoredWidths, h \in StoredHeights, o \in StoredOffsets, f \in StoredFeathers,
        shape \in {"circle", "square"}, r \in StoredRoundness,
        mode \in {"cursor", "mouse"}, active \in BOOLEAN}

\* records no session of the plugin writes: a negative width, a negative height
ForeignRecords ==
    {[spotlightWidth |-> -100, wasActive |-> TRUE],
     [spotlightHeight |-> -40, spotlightShape |-> "square", wasActive |-> TRUE]}

StoredRecords == {NoData} \cup SavedRecords \cup ForeignRecords

InitStored ==
    /\ phase = "init"
    /\ settings = New.settings
    /\ overlayEl = New.overlayEl
    /\ attached = New.attached
    /\ style = New.style
    /\ isActive = New.isActive
    /\ wasActiveBeforePause = New.wasActiveBeforePause
    /\ currentX = New.currentX
    /\ currentY = New.currentY
    /\ data \in StoredRecords
    /\ pending = <<>>
    /\ tabOpen = FALSE
    /\ rendered = NotRendered
    /\ pauseHist = "none"
    /\ restored = FALSE
    /\ budget = 0
    /\ sequential = FALSE
    /\ missed = FALSE
    /\ wh = New_wh

NextStored ==
    \/ Onload
    \/ Toggle
    \/ TrackingEvent
    \/ MouseMove
    \/ OpenTab
    \/ CloseTab
    \/ SaveDone

SpecStored == InitStored /\ [][NextStored]_vars

(***************************************************************************)
(* The full variant and the width/height variant run side by side: both    *)
(* load the same record, one the width/height variant wrote (its six       *)
(* fields, so the full variant takes its newer fields from its defaults),  *)
(* and both receive the same toggles and tracking events with the same     *)
(* answer of the editor.  Only the full variant's toggle() saves.          *)
(***************************************************************************)
VariantRecords ==
    {[DEFAULT_SETTINGS_wh EXCEPT !.spotlightWidth = w, !.spotlightHeight = h,
                                 !.featherEdge = f, !.spotlightShape = shape,
                                 !.squareRoundness = r] :
        w \in StoredWidths, h \in StoredHeights, f \in StoredFeathers,
        shape \in {"circle", "square"}, r \in StoredRoundness}

InitVariants ==
    /\ phase = "init"
    /\ settings = New.settings
    /\ overlayEl = New.overlayEl
    /\ attached = New.attached
    /\ style = New.style
    /\ isActive = New.isActive
    /\ wasActiveBeforePause = New.wasActiveBeforePause
    /\ currentX = New.currentX
    /\ currentY = New.currentY
    /\ data \in {NoData} \cup VariantRecords
    /\ pending = <<>>
    /\ tabOpen = FALSE
    /\ rendered = NotRendered
    /\ pauseHist = "none"
    /\ restored = FALSE
    /\ budget = 0
    /\ sequential = FALSE
    /\ missed = FALSE
    /\ wh = New_wh

OnloadBoth ==
    /\ phase = "init"
    /\ \E target \in Targets : Become(onload(Self, target))
    /\ wh' = onload_wh(wh, data)
    /\ phase' = "loaded"
    /\ restored' = AssignOver(data).wasActive
    /\ UNCHANGED <<data, pending, tabOpen, rendered, pauseHist, budget, sequential, missed>>

ToggleBoth ==
    /\ phase = "loaded"
    /\ Len(pending) < MaxPending
    /\ \E target \in Targets :
         LET s == toggle(Self, target)
         IN  /\ Become(s)
             /\ pending' = saveSettings(s, "apply")
             /\ wh' = toggle_wh(wh, target)
    /\ missed' = FALSE
    /\ UNCHANGED <<phase, data, tabOpen, rendered, pauseHist, restored, budget, sequential>>

TrackingEventBoth ==
    /\ phase = "loaded"
    /\ \E target \in Targets :
         /\ Become(trackCursor(Self, target))
         /\ wh' = trackCursor_wh(wh, target)
         /\ missed' = IF isActive THEN ~target.found ELSE missed
    /\ UNCHANGED <<phase, data, pending, tabOpen, rendered, pauseHist, restored, budget, sequential>>

NextVariants ==
    \/ OnloadBoth
    \/ ToggleBoth
    \/ TrackingEventBoth
    \/ SaveDone

SpecVariants == InitVariants /\ [][NextVariants]_vars

(***************************************************************************)
(* Properties.                                                             *)
(***************************************************************************)
Surface == overlayEl # NULL

\* C1: after consecutive pauseOverlay() calls, resumeOverlay() (the tab's hide())
\* leaves the overlay Active iff it was Active before the first pause, with at
\* most one surface.
C1_ResumeRestoresPrior ==
    [][(CloseTab /\ pauseHist \in {"A", "I"}) =>
          /\ isActive' = (pauseHist = "A")
          /\ Surface' = (pauseHist = "A")
          /\ attached' <= 1]_vars

\* C2: in every state reached by setting operations from the defaults,
\* |horizontalOffset| <= floor(spotlightWidth / 2) - 5.
C2_OffsetWithinBound ==
    Abs(settings.horizontalOffset) <= FloorHalf(settings.spotlightWidth) - 5

\* the offset re-clamped to the bound of width w, keeping its sign
Reclamped(offset, w) ==
    LET bound == FloorHalf(w) - 5
    IN  IF Abs(offset) <= bound THEN offset
        ELSE IF offset > 0 THEN bound ELSE -bound

\* C3: every operation that changes spotlightWidth (the width slider and the
\* increase / decrease-width commands) leaves horizontalOffset re-clamped to the
\* new width's bound, sign kept.
C3_WidthChangeReclamps ==
    [][(/\ \/ IncreaseWidth
           \/ DecreaseWidth
           \/ WidthSlider
        /\ settings'.spotlightWidth # settings.spotlightWidth) =>
          settings'.horizontalOffset =
              Reclamped(settings.horizontalOffset, settings'.spotlightWidth)]_vars

\* C4: at most one overlay surface is attached in every reachable state, and it
\* is the one overlayEl refers to (no createOverlay() over an attached surface).
C4_AtMostOneSurface ==
    /\ attached <= 1
    /\ Surface <=> attached = 1

\* paused from Active and resumed: the surface exists exactly once
C4_Witness ==
    /\ phase = "loaded"
    /\ pauseHist = "none"
    /\ wasActiveBeforePause /\ isActive
    /\ attached = 1

\* C5: whenever no pause is in effect, settings.wasActive equals isActive.
C5_FlagTracksActive ==
    (phase = "loaded" /\ pauseHist = "none") => settings.wasActive = isActive

\* C6: toggle() from Inactive creates the surface and makes the overlay Active,
\* from Active destroys it and makes it Inactive; either way settings.wasActive
\* becomes the new isActive and a save of the settings is issued.
C6_ToggleFlips ==
    [][Toggle =>
          /\ isActive => (~isActive' /\ ~Surface' /\ attached' = 0)
          /\ ~isActive => (isActive' /\ Surface' /\ attached' = 1)
          /\ settings'.wasActive = isActive'
          /\ Len(pending') = Len(pending) + 1
          /\ pending'[Len(pending')].snap = settings']_vars

\* toggled on, the flag set and its save in flight
C6_Witness ==
    /\ isActive /\ Surface /\ settings.wasActive
    /\ pending # <<>>
    /\ pending[Len(pending)].snap.wasActive
    /\ (data = NoData \/ ~AssignOver(data).wasActive)

\* C7: when onload() completes, the overlay is Active with a surface iff the
\* loaded wasActive flag is true.
C7_OnloadRestores ==
    [][Onload =>
          /\ settings' = AssignOver(data)
          /\ isActive' = settings'.wasActive
          /\ Surface' = settings'.wasActive
          /\ attached' = IF settings'.wasActive THEN 1 ELSE 0]_vars

\* loaded with wasActive true: Active with a surface before any command
C7_Witness ==
    /\ phase = "loaded"
    /\ restored
    /\ isActive /\ Surface /\ attached = 1
    /\ pending = <<>>
    /\ settings = AssignOver(data)

\* C8: between a pauseOverlay() and the next resumeOverlay() no surface exists.
C8_NoSurfaceWhilePaused ==
    pauseHist # "none" => (~Surface /\ attached = 0)

\* C9: in Mouse tracking mode the keyup, click and active-leaf-change events
\* leave the target point and the mask unchanged.
C9_MouseModeIgnoresCaret ==
    [][(TrackingEvent /\ settings.trackingMode = "mouse") =>
          UNCHANGED <<currentX, currentY, style>>]_vars

\* C10: a pointer move at (x, y) sets the target point to (x, y), and the mask to
\* that of (x, y), when the overlay is Active in mouse mode; otherwise it leaves
\* the target point and the mask unchanged.
C10_PointerMoveGated ==
    [][\A pt \in MousePoints :
          (/\ phase = "loaded"
           /\ Become(mousemove(Self, pt[1], pt[2]))
           /\ UNCHANGED <<phase, data, pending, tabOpen, rendered, pauseHist, restored, budget,
                          sequential, missed, wh>>) =>
              IF isActive /\ settings.trackingMode = "mouse"
              THEN /\ currentX' = pt[1]
                   /\ currentY' = pt[2]
                   /\ Surface' => style'.mask = maskImage(settings, pt[1], pt[2])
              ELSE UNCHANGED <<currentX, currentY, style>>]_vars

\* the target point is a pointer position, the mask centred on it (plus offset)
C10_Witness ==
    /\ isActive /\ Surface
    /\ settings.trackingMode = "mouse"
    /\ <<currentX, currentY>> \in MousePoints
    /\ style.mask = maskImage(settings, currentX, currentY)

\* C11: a tracking event of the Active overlay that finds no target (no view, no
\* editor or no coordinates) leaves the target point, the blur and mask on the
\* surface, the surface itself and the Active state unchanged.
C11_MissingTargetRetains ==
    [][(TrackingEvent /\ isActive /\ missed') =>
          UNCHANGED <<currentX, currentY, style, overlayEl, attached, isActive, settings>>]_vars

\* the caret was tracked, then a tracking event found no target: the point and
\* the mask are still those of the caret
C11_Witness ==
    /\ missed
    /\ isActive /\ Surface
    /\ \E box \in CaretBoxes :
         /\ currentX = box.left
         /\ currentY = (box.top + box.bottom) \div 2
    /\ style.mask = maskImage(settings, currentX, currentY)

\* C12: resetSettings() leaves width 200, height 100, offset 0, blur 8, feather 50,
\* shape circle, roundness 20 and tracking mode cursor, whatever came before.
C12_ResetRestoresDefaults ==
    [][ResetSettings =>
          /\ settings'.spotlightWidth = 200
          /\ settings'.spotlightHeight = 100
          /\ settings'.horizontalOffset = 0
          /\ settings'.blurIntensity = 8
          /\ settings'.featherEdge = 50
          /\ settings'.spotlightShape = "circle"
          /\ settings'.squareRoundness = 20
          /\ settings'.trackingMode = "cursor"]_vars

\* shape and feather were changed and saved, then the reset: the defaults are
\* in memory and their save is in flight
C12_Witness ==
    /\ budget = MaxSettingOps - 3
    /\ data # NoData
    /\ data.spotlightShape = "square"
    /\ data.featherEdge # 50
    /\ settings.spotlightShape = "circle"
    /\ settings.featherEdge = 50
    /\ pending # <<>>
    /\ pending[Len(pending)].snap = settings

\* v brought into [lo, hi]
Clamped(v, lo, hi) == IF v < lo THEN lo ELSE IF v > hi THEN hi ELSE v

\* the offset's bound at width w
OffsetBound(w) == FloorHalf(w) - 5

\* C13: each adjust command sets its field to old value + step clamped into the
\* field's bounds (width and height 24..600, blur 2..20, offset within the bound
\* of the current width): the field ends inside its range, and at the bound it
\* stays at the bound.
C13_AdjustClamps ==
    [][/\ IncreaseWidth =>
            /\ settings'.spotlightWidth = Clamped(settings.spotlightWidth + 10, 24, 600)
            /\ settings'.spotlightWidth \in 24..600
            /\ settings.spotlightWidth = 600 => settings'.spotlightWidth = 600
       /\ DecreaseWidth =>
            /\ settings'.spotlightWidth = Clamped(settings.spotlightWidth - 10, 24, 600)
            /\ settings'.spotlightWidth \in 24..600
            /\ settings.spotlightWidth = 24 => settings'.spotlightWidth = 24
       /\ IncreaseHeight =>
            /\ settings'.spotlightHeight = Clamped(settings.spotlightHeight + 10, 24, 600)
            /\ settings'.spotlightHeight \in 24..600
            /\ settings.spotlightHeight = 600 => settings'.spotlightHeight = 600
       /\ DecreaseHeight =>
            /\ settings'.spotlightHeight = Clamped(settings.spotlightHeight - 10, 24, 600)
            /\ settings'.spotlightHeight \in 24..600
            /\ settings.spotlightHeight = 24 => settings'.spotlightHeight = 24
       /\ IncreaseBlur =>
            /\ settings'.blurIntensity = Clamped(settings.blurIntensity + 1, 2, 20)
            /\ settings'.blurIntensity \in 2..20
            /\ settings.blurIntensity = 20 => settings'.blurIntensity = 20
       /\ DecreaseBlur =>
            /\ settings'.blurIntensity = Clamped(settings.blurIntensity - 1, 2, 20)
            /\ settings'.blurIntensity \in 2..20
            /\ settings.blurIntensity = 2 => settings'.blurIntensity = 2
       /\ IncreaseOffset =>
            LET bound == OffsetBound(settings.spotlightWidth)
            IN  /\ settings'.horizontalOffset = Clamped(settings.horizontalOffset + 5, -bound, bound)
                /\ settings'.horizontalOffset \in (-bound)..bound
                /\ settings.horizontalOffset = bound => settings'.horizontalOffset = bound
       /\ DecreaseOffset =>
            LET bound == OffsetBound(settings.spotlightWidth)
            IN  /\ settings'.horizontalOffset = Clamped(settings.horizontalOffset - 5, -bound, bound)
                /\ settings'.horizontalOffset \in (-bound)..bound
                /\ settings.horizontalOffset = -bound => settings'.horizontalOffset = -bound]_vars

\* width 600 was reached and saved, and one more increase-width left the
\* configuration as saved while issuing its save
C13_Witness ==
    /\ budget = MaxSettingOps - 3
    /\ settings.spotlightWidth = 600
    /\ data = settings
    /\ pending # <<>>

\* C14: a configuration with a negative width or height is rejected where the
\* settings are loaded: it never becomes the in-memory configuration and no mask
\* is computed from it.
C14_MalformedRejected ==
    /\ phase = "loaded" => (settings.spotlightWidth >= 0 /\ settings.spotlightHeight >= 0)
    /\ (Surface /\ style.mask.shape = "circle") => (style.mask.rx >= 0 /\ style.mask.ry >= 0)
    /\ (Surface /\ style.mask.shape = "square") => (style.mask.width >= 0 /\ style.mask.height >= 0)

\* the blur and mask computed from the in-memory settings and the target point
Computed == [blur |-> settings.blurIntensity, mask |-> maskImage(settings, currentX, currentY)]

\* C15: a save that fails leaves the in-memory configuration, the Active state
\* and the surface as they are, and the overlay keeps showing the in-memory
\* configuration: with no other save in flight, the blur and mask on the
\* surface are those computed from the settings.
C15_FailedSaveKeepsCurrent ==
    [][SaveFail =>
          /\ settings' = settings
          /\ isActive' = isActive
          /\ Surface' = Surface
          /\ (isActive' /\ Surface' /\ pending' = <<>>) => style' = Computed']_vars

\* C16: every operation of the loaded plugin that changes the configuration
\* issues a save of the whole record as it then is; so, with every save
\* completing, once none is in flight the record on disk is the in-memory
\* configuration (the defaults while nothing was ever saved).
C16_EveryMutationSaved ==
    /\ [][(phase = "loaded" /\ settings' # settings) =>
              /\ Len(pending') = Len(pending) + 1
              /\ pending'[Len(pending')].snap = settings']_vars
    /\ []((phase = "loaded" /\ pending = <<>>) =>
              IF data = NoData THEN settings = DEFAULT_SETTINGS ELSE data = settings)

\* a toggle and a configuration change were made and their saves completed
C16_Witness ==
    /\ phase = "loaded"
    /\ budget = 0
    /\ settings.wasActive
    /\ settings # [DEFAULT_SETTINGS EXCEPT !.wasActive = TRUE]
    /\ pending = <<>>
    /\ data = settings

\* C17: for the circle shape the mask on the surface is two ellipses centred at
\* (currentX + horizontalOffset, currentY), the inner one with radii exactly
\* (width / 2, height / 2), the outer one with those radii plus featherEdge.
C17_CircleMask ==
    (Surface /\ settings.spotlightShape = "circle") =>
        /\ style.mask.shape = "circle"
        /\ style.mask.x = currentX + settings.horizontalOffset
        /\ style.mask.y = currentY
        /\ 2 * style.mask.rx = settings.spotlightWidth
        /\ 2 * style.mask.ry = settings.spotlightHeight
        /\ style.mask.outerRx - style.mask.rx = settings.featherEdge
        /\ style.mask.outerRy - style.mask.ry = settings.featherEdge

\* a circle mask computed at a tracked point, with an offset, unequal radii and
\* a feather other than the default
C17_Witness ==
    /\ Surface /\ isActive
    /\ settings.spotlightShape = "circle"
    /\ style.mask.shape = "circle"
    /\ currentX # 0
    /\ settings.horizontalOffset # 0
    /\ settings.spotlightWidth # 2 * settings.spotlightHeight
    /\ settings.featherEdge # DEFAULT_SETTINGS.featherEdge

\* C18: for the square shape the inner rectangle is width x height centred at
\* (currentX + horizontalOffset, currentY) with corner radius
\* (squareRoundness / 100) * min(width, height) / 2; the outer rectangle is the
\* inner one grown by featherEdge on all four sides, its corner radius the inner
\* one plus featherEdge.  (Corner radii in hundredths of a pixel.)
C18_SquareMask ==
    (Surface /\ settings.spotlightShape = "square") =>
        /\ style.mask.shape = "square"
        /\ style.mask.width = settings.spotlightWidth
        /\ style.mask.height = settings.spotlightHeight
        /\ 2 * style.mask.left + style.mask.width = 2 * (currentX + settings.horizontalOffset)
        /\ 2 * style.mask.top + style.mask.height = 2 * currentY
        /\ 2 * style.mask.rx100 =
               settings.squareRoundness * Min(settings.spotlightWidth, settings.spotlightHeight)
        /\ style.mask.outerRx100 = style.mask.rx100 + 100 * settings.featherEdge
        /\ style.mask.outerLeft = style.mask.left - settings.featherEdge
        /\ style.mask.outerTop = style.mask.top - settings.featherEdge
        /\ style.mask.outerLeft + style.mask.outerWidth =
               style.mask.left + style.mask.width + settings.featherEdge
        /\ style.mask.outerTop + style.mask.outerHeight =
               style.mask.top + style.mask.height + settings.featherEdge

\* a square mask computed at a tracked point, with an offset, rounded corners
\* and the height the smaller side
C18_Witness ==
    /\ Surface /\ isActive
    /\ settings.spotlightShape = "square"
    /\ style.mask.shape = "square"
    /\ currentX # 0
    /\ settings.horizontalOffset # 0
    /\ settings.squareRoundness = 100
    /\ settings.spotlightHeight < settings.spotlightWidth
    /\ style.mask.rx100 = 50 * settings.spotlightHeight

\* C19: when toggle(), onload() or resumeOverlay() makes the overlay Active in
\* cursor mode while the editor reports a caret box, the target point becomes
\* the caret's (left, (top + bottom) / 2) and the mask applied is centred on it.
C19_ActivationSeedsPosition ==
    [][\A box \in CaretBoxes :
          (/\ ~isActive
           /\ isActive'
           /\ settings'.trackingMode = "cursor"
           /\ \/ Toggle /\ Become(toggle(Self, box))
              \/ Onload /\ Become(onload(Self, box))
              \/ CloseTab /\ Become(resumeOverlay(Self, box))) =>
              /\ currentX' = box.left
              /\ currentY' = (box.top + box.bottom) \div 2
              /\ style'.mask = maskImage(settings', box.left, (box.top + box.bottom) \div 2)]_vars

\* C20: whenever the overlay is Active and no save is in flight (handlers are
\* single steps), the blur and mask on the surface are those computed from the
\* in-memory settings and the target point last set.
C20_StyleInSync ==
    (phase = "loaded" /\ isActive /\ Surface /\ pending = <<>>) => style = Computed

\* C21: toggle() from Active and pauseOverlay() end with no surface; and while
\* no surface exists, a surface appears only by toggle(), resumeOverlay() or the
\* start-up restore: every other step (the completion of a save, a tracking
\* event, a pointer move) creates none and sets no blur or mask.
C21_RemovalIsFinal ==
    [][/\ (isActive /\ Toggle) => (~Surface' /\ attached' = 0)
       /\ (~tabOpen /\ OpenTab) => (~Surface' /\ attached' = 0)
       /\ (pending # <<>> /\ Head(pending).then = "display" /\ SaveDone) =>
              (~Surface' /\ attached' = 0)
       /\ (~Surface /\ Surface') => (Toggle \/ CloseTab \/ Onload)
       /\ (~Surface /\ ~Surface') => (attached' = 0 /\ style' = NoStyle)]_vars

\* toggled on, tracked, toggled off, and every save issued has completed: no
\* surface and nothing set
C21_Witness ==
    /\ phase = "loaded"
    /\ ~tabOpen /\ pauseHist = "none"
    /\ ~isActive /\ ~Surface /\ attached = 0
    /\ style = NoStyle
    /\ currentX # 0
    /\ ~settings.wasActive
    /\ pending = <<>>
    /\ data = settings

\* the x of the centre of a mask: of the ellipses, or of the inner rectangle
MaskCentreX(m) == IF m.shape = "square" THEN m.left + m.width \div 2 ELSE m.x

\* C22: a pointer move of the Active overlay in mouse mode centres the mask at
\* the pointer's x with no horizontalOffset added, while a tracking event in
\* cursor mode that finds the caret centres it at the caret's x plus
\* horizontalOffset.
C22_OffsetOnlyForCaret ==
    [][/\ (MouseMove /\ isActive /\ settings.trackingMode = "mouse") =>
              MaskCentreX(style'.mask) = currentX'
       /\ (TrackingEvent /\ isActive /\ settings.trackingMode = "cursor" /\ ~missed') =>
              MaskCentreX(style'.mask) = currentX' + settings.horizontalOffset]_vars

\* C22, as the code has it: the mask centre x is the target point's x plus
\* horizontalOffset in both modes, for a pointer position as for a caret.
C22_OffsetInBothModes ==
    [][/\ (MouseMove /\ isActive /\ settings.trackingMode = "mouse") =>
              /\ <<currentX', currentY'>> \in MousePoints
              /\ MaskCentreX(style'.mask) = currentX' + settings.horizontalOffset
       /\ (TrackingEvent /\ isActive /\ settings.trackingMode = "cursor" /\ ~missed') =>
              /\ \E box \in CaretBoxes : currentX' = box.left
              /\ MaskCentreX(style'.mask) = currentX' + settings.horizontalOffset]_vars

\* mouse mode with a non-zero offset: the mask is centred beside the pointer
C22_Witness ==
    /\ isActive /\ Surface
    /\ settings.trackingMode = "mouse"
    /\ settings.horizontalOffset # 0
    /\ <<currentX, currentY>> \in MousePoints
    /\ MaskCentreX(style.mask) = currentX + settings.horizontalOffset

\* C23: after onunload no overlay surface exists, whether the plugin was Active,
\* Inactive or paused, and the completion of a save that was in flight at unload
\* creates none and sets no blur or mask.
C23_NoSurfaceAfterUnload ==
    phase = "unloaded" => (~Surface /\ attached = 0 /\ style = NoStyle)

\* unloaded while Active (isActive is left true) with a save still in flight
C23_Witness ==
    /\ phase = "unloaded"
    /\ isActive
    /\ ~Surface /\ attached = 0
    /\ pending # <<>>

\* the points a mask is computed at: the origin, a pointer position, a caret
TargetPoints ==
    {<<0, 0>>} \cup MousePoints
               \cup {<<box.left, (box.top + box.bottom) \div 2>> : box \in CaretBoxes}

\* C24: the width/height variant computes, for every shape, width, height,
\* feather, roundness and point, the mask the full variant computes with
\* horizontalOffset = 0; and after every sequence of toggles and tracking
\* events given to both, both are Active or both Inactive, both with or both
\* without a surface, with the same blur and mask on it.
C24_VariantIsSubset ==
    /\ phase = "loaded" =>
          \A pt \in TargetPoints :
              maskImage_wh(wh.settings, pt[1], pt[2]) =
                  maskImage([settings EXCEPT !.horizontalOffset = 0], pt[1], pt[2])
    /\ wh.isActive = isActive
    /\ (wh.overlayEl # NULL) = Surface
    /\ wh.attached = attached
    /\ wh.style = style
    /\ <<wh.currentX, wh.currentY>> = <<currentX, currentY>>

\* both toggled on and tracking the caret, with a rounded square of a stored
\* size other than the default
C24_Witness ==
    /\ isActive /\ wh.isActive
    /\ Surface /\ wh.overlayEl # NULL
    /\ wh.currentX # 0
    /\ wh.settings.spotlightShape = "square"
    /\ wh.settings.squareRoundness = 100
    /\ wh.settings.spotlightWidth # DEFAULT_SETTINGS_wh.spotlightWidth
    /\ wh.style.mask = maskImage(settings, currentX, currentY)
    /\ wh.style.mask.shape = "square"

\* C25: while the plugin is loaded (after onload, before onunload), in every
\* state between handlers isActive is true iff overlayEl is non-null.
C25_ActiveIffSurface ==
    phase = "loaded" => (isActive <=> Surface)

\* paused from Active: both false, with the pause remembering Active; and the
\* overlay was Active with a surface before (its point was tracked)
C25_Witness ==
    /\ phase = "loaded"
    /\ tabOpen
    /\ pauseHist = "A"
    /\ wasActiveBeforePause
    /\ ~isActive /\ ~Surface
    /\ currentX # 0

\* C26: pauseOverlay() and resumeOverlay() (the tab's display() and hide())
\* change no field of the settings, issue no save and leave the record on disk
\* as it is; so a restart made while a pause is in effect, every save having
\* completed, finds the persisted wasActive flag equal to the on/off state from
\* before the pause, which is what the next onload() restores.
C26_PauseKeepsFlag ==
    [][/\ (OpenTab \/ CloseTab) =>
              (settings' = settings /\ pending' = pending /\ data' = data)
       /\ (Restart /\ pauseHist \in {"A", "I"} /\ pending = <<>>) =>
              AssignOver(data).wasActive = (pauseHist = "A")]_vars
====
